---- MODULE Spec2Model ----
(***************************************************************************)
(* pybumpchart: the algorithmic components of the bump chart package.      *)
(*                                                                         *)
(*   LabelLayout  detect_label_collisions          (labels.py)             *)
(*   RankEngine   calculate_ranks                  (data.py)               *)
(*   Preparation  validate_dataframe, prepare_data (data.py)               *)
(*                                                                         *)
(* Vertical positions are Python floats in the source.  They are modelled  *)
(* as exact fixed-point numbers: one unit is 0.05, so 1.0 is 20 and the    *)
(* default min_distance 0.5 is 10.  Rounding of a float addition is not    *)
(* modelled.  A label is the pair <<text, y>> of the source's tuple.       *)
(*                                                                         *)
(* Ranks are floats that are whole or half numbers (method average); they  *)
(* are modelled doubled, so rank 1.0 is 2 and rank 1.5 is 3.               *)
(***************************************************************************)
EXTENDS Integers, Sequences, FiniteSets

VARIABLES
    labels,        \* argument of detect_label_collisions: Seq(<<text, y>>)
    min_distance,  \* argument of detect_label_collisions
    adjusted,      \* what detect_label_collisions(labels, min_distance) returned
    readjusted,    \* what detect_label_collisions(adjusted, min_distance) returned
    lpc,           \* "input", "resolved", "again"
    raised,        \* the exception the last call raised, "none" when it returned
    df,            \* argument of calculate_ranks: Seq([time, entity, value])
    ascending,     \* argument of calculate_ranks
    rankOf,        \* tie method -> the Series calculate_ranks returned; <<>> before
    periodRankOf,  \* period t -> tie method -> the Series calculate_ranks returned
                   \* for the rows of period t alone; <<>> before
    call,          \* arguments of validate_dataframe / prepare_data:
                   \* [df, rank_col, value_col, ascending, tie_method]
    validated,     \* what validate_dataframe raised, "none" when it returned
    prepared,      \* [raised, result] of prepare_data
    caller_df,     \* the table object the caller passed, as the caller sees it
    opts,          \* bumpchart's drawing arguments: [ax_given, show_labels,
                   \* min_label_distance]
    bpc,           \* where bumpchart is
    figures,       \* number of figures created
    axes,          \* what has been drawn on the axes, in drawing order
    endpoints      \* [left, right]: what get_endpoint_positions returned

vars == <<labels, min_distance, adjusted, readjusted, lpc, raised,
          df, ascending, rankOf, periodRankOf, call, validated, prepared,
          caller_df, opts, bpc, figures, axes, endpoints>>

labelVars == <<labels, min_distance, adjusted, readjusted, lpc, raised>>
rankVars == <<df, ascending, rankOf, periodRankOf>>
prepVars == <<call, validated, prepared, caller_df>>
chartVars == <<opts, bpc, figures, axes, endpoints>>

----------------------------------------------------------------------------
(* Bounds of the model *)

MaxLabels == 3     \* longest list of labels
MaxPos == 2        \* largest original position, in units of 0.05
MaxSep == 2        \* largest min_distance, in units of 0.05

Texts == {"X", "Y", "Z"}

\* min_distance of the spec's worked example and the source's default (0.5)
DefaultMinDistance == 10

\* [("X",1.0),("Y",1.1),("Z",1.15)]
ExampleLabels == << <<"X", 20>>, <<"Y", 22>>, <<"Z", 23>> >>

MaxRows == 3       \* most rows of a table
MaxTime == 2       \* time periods are 1..MaxTime
MaxValue == 2      \* present values are 1..MaxValue
MaxPrepRows == 2   \* most rows of a table given to prepare_data
MaxWideRows == 1   \* most rows of a table of arbitrary columns
MaxCell == 2       \* supplied ranks are -1..MaxCell, supplied values 1..MaxCell
MaxChartRows == 2  \* most rows of a table given to bumpchart

\* method: TieMethod
TieMethods == {"average", "min", "max", "first", "dense"}

\* A cell of the value column: absent (NaN) or a number.
NaN == [na |-> TRUE, v |-> 0]
Num(n) == [na |-> FALSE, v |-> n]

ValueCells == {NaN} \cup { Num(n) : n \in 1..MaxValue }

\* The two columns calculate_ranks reads: time_col and value_col.
RankRows == [time : 1..MaxTime, value : ValueCells]

DfInputs == UNION { [1..n -> RankRows] : n \in 0..MaxRows }

\* year 2020, scores 100, 100, 80 (tests: test_ties_*_method)
ExampleTies ==
    << [time |-> 2020, value |-> Num(100)],
       [time |-> 2020, value |-> Num(100)],
       [time |-> 2020, value |-> Num(80)] >>

\* year 2020, scores 100, 80, 90 (tests: test_simple_ranking_*)
ExampleSimple ==
    << [time |-> 2020, value |-> Num(100)],
       [time |-> 2020, value |-> Num(80)],
       [time |-> 2020, value |-> Num(90)] >>

LabelInputs ==
    UNION { [1..n -> Texts \X (0..MaxPos)] : n \in 0..MaxLabels }

----------------------------------------------------------------------------
(* labels.py: detect_label_collisions *)

\* key=lambda x: x[1]
SortKey(x) == x[2]

\* a sorts strictly before b; equal keys keep their input order (stable sort)
ComesBefore_Unstable(a, b) == SortKey(a) <= SortKey(b)

ComesBefore_Descending(a, b) == SortKey(a) > SortKey(b)

ComesBefore(a, b) == SortKey(a) < SortKey(b)

\* sorted(): stable, ascending by key.  The element e goes after every
\* element that does not sort strictly after it.
RECURSIVE InsertSorted(_, _)
InsertSorted(s, e) ==
    IF s = <<>> THEN <<e>>
    ELSE IF ComesBefore(e, s[Len(s)])
         THEN Append(InsertSorted(SubSeq(s, 1, Len(s) - 1), e), s[Len(s)])
         ELSE Append(s, e)

RECURSIVE sorted(_)
sorted(s) ==
    IF s = <<>> THEN <<>>
    ELSE InsertSorted(sorted(SubSeq(s, 1, Len(s) - 1)), s[Len(s)])

\* i == 0: adjusted.append((text, y))
Anchor_Pushed(text, y, min_dist) == <<text, y + min_dist>>

Anchor(text, y, min_dist) == <<text, y>>

\* _prev_text, prev_y = adjusted[-1]
PrevY_Original(adj, sorted_labels, i) == sorted_labels[i - 1][2]

PrevY(adj, sorted_labels, i) == adj[Len(adj)][2]

\* if y - prev_y < min_distance: push to prev_y + min_distance, else keep y
Place_OnPrevious(text, y, prev_y, min_dist) ==
    IF y - prev_y < min_dist THEN <<text, prev_y>> ELSE <<text, y>>

Place_Farther(text, y, prev_y, min_dist) ==
    IF y - prev_y < min_dist THEN <<text, prev_y + min_dist + 1>> ELSE <<text, y>>

Place_Always(text, y, prev_y, min_dist) == <<text, prev_y + min_dist>>

Place_Never(text, y, prev_y, min_dist) == <<text, y>>

Place(text, y, prev_y, min_dist) ==
    IF y - prev_y < min_dist
    THEN <<text, prev_y + min_dist>>
    ELSE <<text, y>>

\* for i, (text, y) in enumerate(sorted_labels): ...   (i is 1-based here)
RECURSIVE AdjustLoop(_, _, _, _)
AdjustLoop(sorted_labels, i, adj, min_dist) ==
    IF i > Len(sorted_labels) THEN adj
    ELSE LET text == sorted_labels[i][1]
             y == sorted_labels[i][2]
         IN  IF i = 1
             THEN AdjustLoop(sorted_labels, i + 1,
                             Append(adj, Anchor(text, y, min_dist)), min_dist)
             ELSE AdjustLoop(sorted_labels, i + 1,
                             Append(adj, Place(text, y,
                                               PrevY(adj, sorted_labels, i),
                                               min_dist)),
                             min_dist)

detect_label_collisions(lbls, min_dist) ==
    IF Len(lbls) <= 1 THEN lbls
    ELSE AdjustLoop(sorted(lbls), 1, <<>>, min_dist)

----------------------------------------------------------------------------
(* The label layout as a state machine: one call, then a second call on    *)
(* the result of the first with the same min_distance.                     *)

\* the value of a result variable before the call that sets it
NotCalled == << <<"not called", 0>> >>

\* no call of validate_dataframe or prepare_data
NoCall ==
    [df |-> [is_dataframe |-> FALSE, columns |-> {}, rows |-> <<>>],
     rank_col |-> "None", value_col |-> "None",
     ascending |-> TRUE, tie_method |-> "average"]

NotPrepared == [raised |-> "not called", result |-> <<>>]

InitPrepIdle ==
    /\ call = NoCall
    /\ validated = "not called"
    /\ prepared = NotPrepared
    /\ caller_df = [columns |-> {}, rows |-> <<>>]

\* no call of bumpchart
NoEndpoints == [left |-> <<>>, right |-> <<>>]

InitChartIdle ==
    /\ opts = [ax_given |-> FALSE, show_labels |-> "True",
               min_label_distance |-> DefaultMinDistance]
    /\ bpc = "idle"
    /\ figures = 0
    /\ axes = <<>>
    /\ endpoints = NoEndpoints

InitRankIdle ==
    /\ df = <<>>
    /\ ascending = TRUE
    /\ rankOf = <<>>
    /\ periodRankOf = <<>>

InitLabels ==
    /\ \/ /\ labels \in LabelInputs
          /\ min_distance \in (-1)..MaxSep
       \/ /\ labels = ExampleLabels
          /\ min_distance = DefaultMinDistance
    /\ adjusted = NotCalled
    /\ readjusted = NotCalled
    /\ lpc = "input"
    /\ raised = "none"
    /\ InitRankIdle
    /\ InitPrepIdle
    /\ InitChartIdle

Resolve ==
    /\ lpc = "input"
    /\ adjusted' = detect_label_collisions(labels, min_distance)
    /\ lpc' = "resolved"
    /\ UNCHANGED <<labels, min_distance, readjusted, raised>>
    /\ UNCHANGED rankVars
    /\ UNCHANGED prepVars
    /\ UNCHANGED chartVars

ResolveAgain ==
    /\ lpc = "resolved"
    /\ readjusted' = detect_label_collisions(adjusted, min_distance)
    /\ lpc' = "again"
    /\ UNCHANGED <<labels, min_distance, adjusted, raised>>
    /\ UNCHANGED rankVars
    /\ UNCHANGED prepVars
    /\ UNCHANGED chartVars

NextLabels == Resolve \/ ResolveAgain

SpecLabels == InitLabels /\ [][NextLabels]_vars

----------------------------------------------------------------------------
(* data.py: calculate_ranks                                                *)
(*   df.groupby(time_col)[value_col].rank(method, ascending,               *)
(*                                        na_option="bottom")              *)
(* The grouped rank sorts the rows once by (group, mask, value), reverses  *)
(* the order when descending, and sweeps it, giving every stretch of equal *)
(* values of one group its ranks when the stretch ends.  Ranks are doubled.*)

\* masked_vals: an absent value is filled with +inf when ascending and with
\* -inf when descending (na_option="bottom"); <<sign of infinity, number>>
MaskedVal(row, asc) ==
    IF row.value.na THEN (IF asc THEN <<1, 0>> ELSE <<-1, 0>>)
    ELSE <<0, row.value.v>>

ExtLess(x, y) == x[1] < y[1] \/ (x[1] = y[1] /\ x[2] < y[2])

\* order = [masked_vals, mask] when ascending, [masked_vals, ~mask] otherwise
MaskKey_AscendingOnly(row, asc) == IF row.value.na THEN 1 ELSE 0

MaskKey(row, asc) ==
    IF asc THEN (IF row.value.na THEN 1 ELSE 0)
    ELSE (IF row.value.na THEN 0 ELSE 1)

\* np.lexsort(order + [labels]): by group, then mask key, then value
LexBefore_NoGroup(a, b, asc) ==
    \/ MaskKey(a, asc) < MaskKey(b, asc)
    \/ /\ MaskKey(a, asc) = MaskKey(b, asc)
       /\ ExtLess(MaskedVal(a, asc), MaskedVal(b, asc))

LexBefore(a, b, asc) ==
    \/ a.time < b.time
    \/ /\ a.time = b.time
       /\ \/ MaskKey(a, asc) < MaskKey(b, asc)
          \/ /\ MaskKey(a, asc) = MaskKey(b, asc)
             /\ ExtLess(MaskedVal(a, asc), MaskedVal(b, asc))

\* stable insertion of row index e into the sorted index list s
RECURSIVE LexInsert(_, _, _, _)
LexInsert(s, e, rows, asc) ==
    IF s = <<>> THEN <<e>>
    ELSE IF LexBefore(rows[e], rows[s[Len(s)]], asc)
         THEN Append(LexInsert(SubSeq(s, 1, Len(s) - 1), e, rows, asc), s[Len(s)])
         ELSE Append(s, e)

RECURSIVE LexSort(_, _, _)
LexSort(n, rows, asc) ==
    IF n = 0 THEN <<>>
    ELSE LexInsert(LexSort(n - 1, rows, asc), n, rows, asc)

Reverse(s) == [i \in 1..Len(s) |-> s[Len(s) + 1 - i]]

\* if not ascending: sort_indexer = sort_indexer[::-1]
SortIndexer_NoReverse(rows, asc) == LexSort(Len(rows), rows, asc)

SortIndexer(rows, asc) ==
    IF asc THEN LexSort(Len(rows), rows, asc)
    ELSE Reverse(LexSort(Len(rows), rows, asc))

\* The rank of position j (0-based, in sorted order) of a stretch of dups
\* equal values that ends at position i; "first" of a descending rank is
\* the tiebreak FIRST_DESCENDING.
TieRank_MaxGlobal(tiebreak, asc, i, j, dups, sum_ranks, grp_start, grp_vals_seen) ==
    CASE tiebreak = "average" -> (2 * sum_ranks) \div dups
      [] tiebreak = "min" -> 2 * (i - grp_start - dups + 2)
      [] tiebreak = "max" -> 2 * (i + 1)
      [] tiebreak = "first" /\ asc -> 2 * (j + 1 - grp_start)
      [] tiebreak = "first" /\ ~asc -> 2 * (2 * i - j - dups + 2 - grp_start)
      [] tiebreak = "dense" -> 2 * grp_vals_seen

TieRank_AverageAsMin(tiebreak, asc, i, j, dups, sum_ranks, grp_start, grp_vals_seen) ==
    CASE tiebreak = "average" -> 2 * (i - grp_start - dups + 2)
      [] tiebreak = "min" -> 2 * (i - grp_start - dups + 2)
      [] tiebreak = "max" -> 2 * (i - grp_start + 1)
      [] tiebreak = "first" /\ asc -> 2 * (j + 1 - grp_start)
      [] tiebreak = "first" /\ ~asc -> 2 * (2 * i - j - dups + 2 - grp_start)
      [] tiebreak = "dense" -> 2 * grp_vals_seen

TieRank_MinAsMax(tiebreak, asc, i, j, dups, sum_ranks, grp_start, grp_vals_seen) ==
    CASE tiebreak = "average" -> (2 * sum_ranks) \div dups
      [] tiebreak = "min" -> 2 * (i - grp_start + 1)
      [] tiebreak = "max" -> 2 * (i - grp_start + 1)
      [] tiebreak = "first" /\ asc -> 2 * (j + 1 - grp_start)
      [] tiebreak = "first" /\ ~asc -> 2 * (2 * i - j - dups + 2 - grp_start)
      [] tiebreak = "dense" -> 2 * grp_vals_seen

TieRank_FirstNotDescending(tiebreak, asc, i, j, dups, sum_ranks, grp_start, grp_vals_seen) ==
    CASE tiebreak = "average" -> (2 * sum_ranks) \div dups
      [] tiebreak = "min" -> 2 * (i - grp_start - dups + 2)
      [] tiebreak = "max" -> 2 * (i - grp_start + 1)
      [] tiebreak = "first" -> 2 * (j + 1 - grp_start)
      [] tiebreak = "dense" -> 2 * grp_vals_seen

TieRank_DenseAsMin(tiebreak, asc, i, j, dups, sum_ranks, grp_start, grp_vals_seen) ==
    CASE tiebreak = "average" -> (2 * sum_ranks) \div dups
      [] tiebreak = "min" -> 2 * (i - grp_start - dups + 2)
      [] tiebreak = "max" -> 2 * (i - grp_start + 1)
      [] tiebreak = "first" /\ asc -> 2 * (j + 1 - grp_start)
      [] tiebreak = "first" /\ ~asc -> 2 * (2 * i - j - dups + 2 - grp_start)
      [] tiebreak = "dense" -> 2 * (i - grp_start - dups + 2)

TieRank(tiebreak, asc, i, j, dups, sum_ranks, grp_start, grp_vals_seen) ==
    CASE tiebreak = "average" -> (2 * sum_ranks) \div dups
      [] tiebreak = "min" -> 2 * (i - grp_start - dups + 2)
      [] tiebreak = "max" -> 2 * (i - grp_start + 1)
      [] tiebreak = "first" /\ asc -> 2 * (j + 1 - grp_start)
      [] tiebreak = "first" /\ ~asc -> 2 * (2 * i - j - dups + 2 - grp_start)
      [] tiebreak = "dense" -> 2 * grp_vals_seen

\* out[sort_indexer[j]] = ...: the rank of sorted position j (0-based) is
\* written at the position of its row in the input
OutIndex_Sorted(sort_indexer, j) == j + 1

OutIndex(sort_indexer, j) == sort_indexer[j + 1]

\* The sweep over the sorted order; i is 0-based as in the library, st holds
\* out, dups, sum_ranks, grp_start and grp_vals_seen.
RECURSIVE RankSorted(_, _, _, _, _, _)
RankSorted(rows, asc, tiebreak, sort_indexer, i, st) ==
    IF i >= Len(sort_indexer) THEN st.out
    ELSE
      LET N == Len(sort_indexer)
          at_end == i = N - 1
          cur == rows[sort_indexer[i + 1]]
          nxt == rows[sort_indexer[i + 2]]
          dups == st.dups + 1
          sum_ranks == st.sum_ranks + i - st.grp_start + 1
          next_val_diff == at_end \/ MaskedVal(cur, asc) # MaskedVal(nxt, asc)
          group_changed == at_end \/ cur.time # nxt.time
          mask_diff == ~at_end /\ (cur.value.na # nxt.value.na)
          stretch == { OutIndex(sort_indexer, j) : j \in (i - dups + 1)..i }
          posOf(k) == CHOOSE j \in (i - dups + 1)..i : OutIndex(sort_indexer, j) = k
          out == [k \in DOMAIN st.out |->
                    IF k \in stretch
                    THEN TieRank(tiebreak, asc, i, posOf(k), dups, sum_ranks,
                                 st.grp_start, st.grp_vals_seen)
                    ELSE st.out[k]]
      IN  IF next_val_diff \/ group_changed \/ mask_diff
          THEN IF group_changed
               THEN RankSorted(rows, asc, tiebreak, sort_indexer, i + 1,
                        [out |-> out, dups |-> 0, sum_ranks |-> 0,
                         grp_start |-> i + 1, grp_vals_seen |-> 1])
               ELSE RankSorted(rows, asc, tiebreak, sort_indexer, i + 1,
                        [out |-> out, dups |-> 0, sum_ranks |-> 0,
                         grp_start |-> st.grp_start,
                         grp_vals_seen |-> st.grp_vals_seen + 1])
          ELSE RankSorted(rows, asc, tiebreak, sort_indexer, i + 1,
                        [out |-> st.out, dups |-> dups, sum_ranks |-> sum_ranks,
                         grp_start |-> st.grp_start,
                         grp_vals_seen |-> st.grp_vals_seen])

calculate_ranks(rows, asc, method) ==
    RankSorted(rows, asc, method, SortIndexer(rows, asc), 0,
               [out |-> [k \in 1..Len(rows) |-> 0], dups |-> 0, sum_ranks |-> 0,
                grp_start |-> 0, grp_vals_seen |-> 1])

----------------------------------------------------------------------------
(* The rank engine as a state machine: the same table is ranked under one  *)
(* direction with each of the tie methods, each result kept.               *)

InitLabelIdle ==
    /\ labels = <<>>
    /\ min_distance = 0
    /\ adjusted = NotCalled
    /\ readjusted = NotCalled
    /\ lpc = "idle"
    /\ raised = "none"

InitRanks ==
    /\ df \in DfInputs \cup {ExampleTies, ExampleSimple}
    /\ ascending \in BOOLEAN
    /\ rankOf = <<>>
    /\ periodRankOf = <<>>
    /\ InitLabelIdle
    /\ InitPrepIdle
    /\ InitChartIdle

\* calculate_ranks(df, time_col, value_col, ascending, method), called once
\* for each tie method on the same table and direction
CalculateRanks ==
    /\ DOMAIN rankOf = {}
    /\ rankOf' = [m \in TieMethods |-> calculate_ranks(df, ascending, m)]
    /\ UNCHANGED <<df, ascending, periodRankOf>>
    /\ UNCHANGED labelVars
    /\ UNCHANGED prepVars
    /\ UNCHANGED chartVars

\* the positions of the rows of period t, in input order
PeriodIndex(rows, t) ==
    LET members == { k \in 1..Len(rows) : rows[k].time = t } IN
    [i \in 1..Cardinality(members) |->
        CHOOSE k \in members :
            Cardinality({ j \in members : j < k }) = i - 1]

\* df[df[time_col] == t]: the table of the rows of period t alone
SelectPeriod(rows, t) ==
    [i \in 1..Len(PeriodIndex(rows, t)) |-> rows[PeriodIndex(rows, t)[i]]]

\* calculate_ranks on the rows of one period of the table that was ranked,
\* same direction, once for each tie method
CalculateRanksOfPeriod(t) ==
    /\ DOMAIN rankOf # {}
    /\ DOMAIN periodRankOf = {}
    /\ periodRankOf' =
           [x \in {t} |->
               [m \in TieMethods |->
                   calculate_ranks(SelectPeriod(df, t), ascending, m)]]
    /\ UNCHANGED <<df, ascending, rankOf>>
    /\ UNCHANGED labelVars
    /\ UNCHANGED prepVars
    /\ UNCHANGED chartVars

NextRanks ==
    \/ CalculateRanks
    \/ \E t \in { df[i].time : i \in 1..Len(df) } : CalculateRanksOfPeriod(t)

SpecRanks == InitRanks /\ [][NextRanks]_vars

(***************************************************************************)
(* data.py, validate_dataframe / prepare_data / _validate_ranks.           *)
(* A frame is modelled by whether the object is a DataFrame, its set of    *)
(* column names and its rows; a column the frame does not have holds its   *)
(* default in every row and is never read before validate_dataframe has    *)
(* rejected the call.  The time column is the column "time", the entity    *)
(* column the column "entity"; rank_col and value_col are "None" or the    *)
(* name of the column "rank" / "value".  Supplied ranks are whole numbers  *)
(* or NaN; the float ranks of the result are kept doubled, as the ranks of *)
(* calculate_ranks are.  An error is the string of its type and message.   *)
(***************************************************************************)

Columns == {"time", "entity", "rank", "value"}

Entities == {"A", "B"}

\* the order of the entity labels under sort_values
EntityIndex(e) == CASE e = "A" -> 1 [] e = "B" -> 2 [] e = "C" -> 3

RankCells == {NaN} \cup { Num(n) : n \in (0 - 1)..MaxCell }

PrepValueCells == {NaN} \cup { Num(n) : n \in 1..MaxCell }

\* the rows a frame with the columns cols can hold
RowsOver(cols) ==
    [time : IF "time" \in cols THEN 1..MaxTime ELSE {1},
     entity : IF "entity" \in cols THEN Entities ELSE {"A"},
     rank : IF "rank" \in cols THEN RankCells ELSE {NaN},
     value : IF "value" \in cols THEN PrepValueCells ELSE {NaN}]

Frame(cols, rs) == [is_dataframe |-> TRUE, columns |-> cols, rows |-> rs]

\* the tables of at most maxRows rows over the columns cols
Tables(cols, maxRows) == UNION { [1..n -> RowsOver(cols)] : n \in 0..maxRows }

\* test_data.py, test_duplicate_entity_time
ExampleDuplicate ==
    [is_dataframe |-> TRUE, columns |-> {"time", "entity", "rank"},
     rows |-> << [time |-> 1, entity |-> "A", rank |-> Num(1), value |-> NaN],
                 [time |-> 1, entity |-> "A", rank |-> Num(2), value |-> NaN],
                 [time |-> 1, entity |-> "B", rank |-> Num(3), value |-> NaN] >>]

\* test_data.py, test_with_value_col (scores 100, 80, 90 as 3, 1, 2)
ExampleValueCol ==
    [is_dataframe |-> TRUE, columns |-> {"time", "entity", "value"},
     rows |-> << [time |-> 1, entity |-> "A", rank |-> NaN, value |-> Num(3)],
                 [time |-> 1, entity |-> "B", rank |-> NaN, value |-> Num(1)],
                 [time |-> 1, entity |-> "C", rank |-> NaN, value |-> Num(2)] >>]

\* test_data.py, test_sorted_output (years 2020, 2021 as 1, 2)
ExampleSorted ==
    [is_dataframe |-> TRUE, columns |-> {"time", "entity", "rank"},
     rows |-> << [time |-> 2, entity |-> "B", rank |-> Num(2), value |-> NaN],
                 [time |-> 1, entity |-> "A", rank |-> Num(1), value |-> NaN],
                 [time |-> 2, entity |-> "A", rank |-> Num(1), value |-> NaN],
                 [time |-> 1, entity |-> "B", rank |-> Num(2), value |-> NaN] >>]

\* an object that is not a DataFrame
NotAFrame == [is_dataframe |-> FALSE, columns |-> {}, rows |-> <<>>]

PrepCall(d, rc, vc, asc, m) ==
    [df |-> d, rank_col |-> rc, value_col |-> vc,
     ascending |-> asc, tie_method |-> m]

\* df.empty: no rows or no columns
Empty(d) == Len(d.rows) = 0 \/ d.columns = {}

validate_dataframe_NoEmpty(d, rank_col, value_col) ==
    IF ~d.is_dataframe THEN "TypeError: Expected pandas DataFrame"
    ELSE IF ~({"time", "entity"} \subseteq d.columns)
        THEN "ValueError: Missing required columns"
    ELSE IF rank_col = "None" /\ value_col = "None"
        THEN "ValueError: Either 'rank_col' or 'value_col' must be provided"
    ELSE IF rank_col # "None" /\ rank_col \notin d.columns
        THEN "ValueError: Rank column not found in DataFrame"
    ELSE IF value_col # "None" /\ value_col \notin d.columns
        THEN "ValueError: Value column not found in DataFrame"
    ELSE "none"

validate_dataframe(d, rank_col, value_col) ==
    IF ~d.is_dataframe THEN "TypeError: Expected pandas DataFrame"
    ELSE IF Empty(d) THEN "ValueError: DataFrame is empty"
    ELSE IF ~({"time", "entity"} \subseteq d.columns)
        THEN "ValueError: Missing required columns"
    ELSE IF rank_col = "None" /\ value_col = "None"
        THEN "ValueError: Either 'rank_col' or 'value_col' must be provided"
    ELSE IF rank_col # "None" /\ rank_col \notin d.columns
        THEN "ValueError: Rank column not found in DataFrame"
    ELSE IF value_col # "None" /\ value_col \notin d.columns
        THEN "ValueError: Value column not found in DataFrame"
    ELSE "none"

\* df.duplicated(subset=[time_col, entity_col], keep=False).any()
Duplicated(rows) ==
    \E i, j \in 1..Len(rows) :
        i # j /\ rows[i].time = rows[j].time /\ rows[i].entity = rows[j].entity

\* (df["_rank"].dropna() < 0).any()
AnyNegative(rows) ==
    \E i \in 1..Len(rows) : ~rows[i]._rank.na /\ rows[i]._rank.v < 0

\* df["_rank"].isna().all()
AllNaN(rows) == \A i \in 1..Len(rows) : rows[i]._rank.na

validate_ranks_NoDuplicates(rows) ==
    IF AllNaN(rows) THEN "ValueError: All rank values are NaN"
    ELSE IF AnyNegative(rows) THEN "ValueError: Rank values must be non-negative"
    ELSE "none"

validate_ranks_NoNegative(rows) ==
    IF AllNaN(rows) THEN "ValueError: All rank values are NaN"
    ELSE IF Duplicated(rows)
        THEN "ValueError: Duplicate entity-time combinations found"
    ELSE "none"

\* _validate_ranks
validate_ranks(rows) ==
    IF AllNaN(rows) THEN "ValueError: All rank values are NaN"
    ELSE IF AnyNegative(rows) THEN "ValueError: Rank values must be non-negative"
    ELSE IF Duplicated(rows)
        THEN "ValueError: Duplicate entity-time combinations found"
    ELSE "none"

\* result["_rank"] = ...
WithRank(rows, ranks) ==
    [i \in 1..Len(rows) |->
        [time |-> rows[i].time, entity |-> rows[i].entity,
         rank |-> rows[i].rank, value |-> rows[i].value, _rank |-> ranks[i]]]

\* result[rank_col].astype(float), the float kept doubled
astype_float(rows) ==
    [i \in 1..Len(rows) |->
        IF rows[i].rank.na THEN NaN ELSE Num(2 * rows[i].rank.v)]

\* the Series of calculate_ranks as a column of cells
RankColumn(rows, asc, method) ==
    [i \in 1..Len(rows) |-> Num(calculate_ranks(rows, asc, method)[i])]

RowBefore_Descending(a, b) ==
    \/ a.time > b.time
    \/ a.time = b.time /\ EntityIndex(a.entity) > EntityIndex(b.entity)

\* the order of sort_values([time_col, entity_col])
RowBefore(a, b) ==
    \/ a.time < b.time
    \/ a.time = b.time /\ EntityIndex(a.entity) < EntityIndex(b.entity)

RECURSIVE RowInsert(_, _)
RowInsert(s, e) ==
    IF s = <<>> THEN <<e>>
    ELSE IF RowBefore(e, s[Len(s)]) 
        THEN Append(RowInsert(SubSeq(s, 1, Len(s) - 1), e), s[Len(s)])
        ELSE Append(s, e)

RECURSIVE sort_values(_)
sort_values(rows) ==
    IF rows = <<>> THEN <<>>
    ELSE RowInsert(sort_values(SubSeq(rows, 1, Len(rows) - 1)), rows[Len(rows)])

Raise(e) == [raised |-> e, result |-> <<>>]

prepare_data(d, rank_col, value_col, asc, method) ==
    LET v == validate_dataframe(d, rank_col, value_col) IN
    IF v # "none" THEN Raise(v)
    ELSE IF value_col = "None" /\ rank_col = "None"
        THEN Raise("ValueError: Either 'rank_col' or 'value_col' must be provided")
    ELSE
        LET result == IF value_col # "None"
                        THEN WithRank(d.rows, RankColumn(d.rows, asc, method))
                        ELSE WithRank(d.rows, astype_float(d.rows))
            r == validate_ranks(result)
        IN  IF r # "none" THEN Raise(r)
            ELSE [raised |-> "none", result |-> sort_values(result)]

\* the columns and rows of a table object
TableOf(d) == [columns |-> d.columns, rows |-> d.rows]

\* df.copy() is a new object
copy_Alias(ref) == ref

copy(ref) == "result"

\* obj["_rank"] = ranks, in place
SetRankColumn(heap, ref, ranks) ==
    [heap EXCEPT ![ref] = [columns |-> @.columns \cup {"_rank"},
                           rows |-> WithRank(@.rows, ranks)]]

\* The table objects after prepare_data: "df" is the caller's object,
\* "result" the object prepare_data works on.  validate_dataframe and
\* calculate_ranks only read; the column assignment is made before
\* _validate_ranks, so it is made in a call that raises there too.
HeapAfterPrepare(d, rank_col, value_col, asc, method) ==
    LET heap0 == [o \in {"df"} |-> TableOf(d)]
        result == copy("df")
        heap1 == [o \in {"df", result} |-> heap0["df"]]
    IN  IF validate_dataframe(d, rank_col, value_col) # "none" THEN heap0
        ELSE IF value_col # "None"
            THEN SetRankColumn(heap1, result,
                               RankColumn(heap1[result].rows, asc, method))
        ELSE IF rank_col # "None"
            THEN SetRankColumn(heap1, result, astype_float(heap1[result].rows))
        ELSE heap1

\* the calls of the model: any frame of at most MaxWideRows rows, whatever
\* its columns, under every choice of rank_col and value_col; the tables of
\* supplied ranks and the tables of values of at most MaxPrepRows rows, the
\* latter under every direction and tie method; the tables of the tests
InitPrepare ==
    /\ \/ \E rc \in {"None", "rank"}, vc \in {"None", "value"} :
            \/ call = PrepCall(NotAFrame, rc, vc, TRUE, "average")
            \/ \E cols \in SUBSET Columns :
                    \E rs \in Tables(cols, MaxWideRows) :
                        call = PrepCall(Frame(cols, rs), rc, vc, TRUE, "average")
       \/ \E rs \in Tables({"time", "entity", "rank"}, MaxPrepRows) :
            call = PrepCall(Frame({"time", "entity", "rank"}, rs),
                            "rank", "None", TRUE, "average")
       \/ call = PrepCall(ExampleDuplicate, "rank", "None", TRUE, "average")
       \/ call = PrepCall(ExampleSorted, "rank", "None", TRUE, "average")
       \/ \E asc \in BOOLEAN, m \in TieMethods :
            \/ \E rs \in Tables({"time", "entity", "value"}, MaxPrepRows) :
                    call = PrepCall(Frame({"time", "entity", "value"}, rs),
                                    "None", "value", asc, m)
            \/ call = PrepCall(ExampleValueCol, "None", "value", asc, m)
    /\ validated = "not called"
    /\ prepared = NotPrepared
    /\ caller_df = TableOf(call.df)
    /\ InitLabelIdle
    /\ InitRankIdle
    /\ InitChartIdle

ValidateDataframe ==
    /\ validated = "not called"
    /\ prepared = NotPrepared
    /\ validated' = validate_dataframe(call.df, call.rank_col, call.value_col)
    /\ UNCHANGED <<call, prepared, caller_df>>
    /\ UNCHANGED labelVars
    /\ UNCHANGED rankVars
    /\ UNCHANGED chartVars

PrepareData ==
    /\ validated = "not called"
    /\ prepared = NotPrepared
    /\ prepared' = prepare_data(call.df, call.rank_col, call.value_col,
                                call.ascending, call.tie_method)
    /\ caller_df' = HeapAfterPrepare(call.df, call.rank_col, call.value_col,
                                     call.ascending, call.tie_method)["df"]
    /\ UNCHANGED <<call, validated>>
    /\ UNCHANGED labelVars
    /\ UNCHANGED rankVars
    /\ UNCHANGED chartVars

NextPrepare == ValidateDataframe \/ PrepareData

SpecPrepare == InitPrepare /\ [][NextPrepare]_vars

----------------------------------------------------------------------------
(***************************************************************************)
(* core.py, bumpchart, with labels.py get_endpoint_positions and           *)
(* add_labels_with_collision_avoidance, data.py get_entity_data and        *)
(* chart.py format_axes.  The axes are modelled by the sequence of what    *)
(* has been drawn on them; colours, widths, fonts and the horizontal       *)
(* padding of a label are left out.  show_labels True and False are the    *)
(* strings "True" and "False".  A label position is a rank in units of     *)
(* 0.05, as in detect_label_collisions: ten times the doubled rank.        *)
(***************************************************************************)

LabelPositions == {"True", "False", "left", "right", "both"}

\* one thing drawn on the axes
Artist(kind, entity, side, x, y) ==
    [kind |-> kind, entity |-> entity, side |-> side, x |-> x, y |-> y]

\* what a supplied axes holds before the call
Existing == Artist("existing", "", "none", 0, 0)

\* Series.unique(): the distinct elements in order of first appearance
RECURSIVE unique(_)
unique(s) ==
    IF s = <<>> THEN <<>>
    ELSE LET u == unique(SubSeq(s, 1, Len(s) - 1))
         IN  IF \E k \in 1..Len(u) : u[k] = s[Len(s)] THEN u
             ELSE Append(u, s[Len(s)])

\* prepared_df[entity_col].unique().tolist()
EntitiesOf(rows) == unique([i \in 1..Len(rows) |-> rows[i].entity])

\* int(x) of a doubled float: truncation towards zero
IntOf(x2) == IF x2 >= 0 THEN x2 \div 2 ELSE 0 - ((0 - x2) \div 2)

\* prepared_df["_rank"].max(): the largest present rank
MaxOf(rows) ==
    LET present == { rows[i]._rank.v : i \in { k \in 1..Len(rows) : ~rows[k]._rank.na } }
    IN  CHOOSE m \in present : \A r \in present : r <= m

\* max_rank = int(prepared_df["_rank"].max())
MaxRankOf(rows) == IntOf(MaxOf(rows))

\* df[df[entity_col] == entity]
RECURSIVE RowsOfEntity(_, _)
RowsOfEntity(rows, entity) ==
    IF rows = <<>> THEN <<>>
    ELSE LET rest == RowsOfEntity(SubSeq(rows, 1, Len(rows) - 1), entity)
         IN  IF rows[Len(rows)].entity = entity
             THEN Append(rest, rows[Len(rows)])
             ELSE rest

RECURSIVE TimeInsert(_, _)
TimeInsert(s, e) ==
    IF s = <<>> THEN <<e>>
    ELSE IF e.time < s[Len(s)].time
        THEN Append(TimeInsert(SubSeq(s, 1, Len(s) - 1), e), s[Len(s)])
        ELSE Append(s, e)

\* .sort_values(by=time_col)
RECURSIVE SortByTime(_)
SortByTime(rows) ==
    IF rows = <<>> THEN <<>>
    ELSE TimeInsert(SortByTime(SubSeq(rows, 1, Len(rows) - 1)), rows[Len(rows)])

\* get_entity_data: the (time, rank) pairs of one entity in time order
get_entity_data(rows, entity) ==
    LET entity_df == SortByTime(RowsOfEntity(rows, entity))
    IN  [i \in 1..Len(entity_df) |->
            [time |-> entity_df[i].time, rank |-> entity_df[i]._rank]]

\* ranks[mask], with the times: the pairs whose rank is present
RECURSIVE Masked(_)
Masked(data) ==
    IF data = <<>> THEN <<>>
    ELSE LET rest == Masked(SubSeq(data, 1, Len(data) - 1))
         IN  IF data[Len(data)].rank.na THEN rest
             ELSE Append(rest, data[Len(data)])

\* float(y) of a rank, in the unit of a label position
PositionOf(rank) == 10 * rank.v

EndpointOf_First(valid, side) == valid[1]

\* valid_ranks[0] if side == "left" else valid_ranks[-1], with its time
EndpointOf(valid, side) == IF side = "left" THEN valid[1] ELSE valid[Len(valid)]

\* for entity in entities: ...
RECURSIVE get_endpoint_positions(_, _, _)
get_endpoint_positions(entities, entity_data, side) ==
    IF entities = <<>> THEN <<>>
    ELSE LET positions == get_endpoint_positions(
                              SubSeq(entities, 1, Len(entities) - 1),
                              entity_data, side)
             entity == entities[Len(entities)]
             valid == Masked(entity_data[entity])
         IN  IF valid = <<>> THEN positions
             ELSE Append(positions,
                         <<entity, PositionOf(EndpointOf(valid, side).rank)>>)

\* for entity, y in adjusted: if mask.any(): _add_single_label(ax, entity,
\* times[mask][0] or times[mask][-1], y, ..., side=side)
RECURSIVE SideLabels(_, _, _)
SideLabels(adjusted_side, entity_data, side) ==
    IF adjusted_side = <<>> THEN <<>>
    ELSE LET texts == SideLabels(SubSeq(adjusted_side, 1, Len(adjusted_side) - 1),
                                 entity_data, side)
             entity == adjusted_side[Len(adjusted_side)][1]
             y == adjusted_side[Len(adjusted_side)][2]
             valid == Masked(entity_data[entity])
         IN  IF valid = <<>> THEN texts
             ELSE Append(texts, Artist("text", entity, side,
                                       EndpointOf(valid, side).time, y))

ShowsLeft_NotBoth(show_labels) == show_labels \in {"True", "left"}

\* show_labels in (True, "left", "both")
ShowsLeft(show_labels) == show_labels \in {"True", "left", "both"}

\* show_labels in (True, "right", "both")
ShowsRight(show_labels) == show_labels \in {"True", "right", "both"}

\* entity_data[entity] = get_entity_data(...) for every entity
EntityDataOf(rows) ==
    [e \in { rows[i].entity : i \in 1..Len(rows) } |-> get_entity_data(rows, e)]

\* the texts add_labels_with_collision_avoidance draws, in drawing order
add_labels_with_collision_avoidance(entities, entity_data, show_labels, min_dist) ==
    IF show_labels = "False" THEN <<>>
    ELSE
        (IF ShowsLeft(show_labels)
         THEN SideLabels(detect_label_collisions(
                             get_endpoint_positions(entities, entity_data, "left"),
                             min_dist),
                         entity_data, "left")
         ELSE <<>>)
        \o
        (IF ShowsRight(show_labels)
         THEN SideLabels(detect_label_collisions(
                             get_endpoint_positions(entities, entity_data, "right"),
                             min_dist),
                         entity_data, "right")
         ELSE <<>>)

\* _draw_lines and _draw_points of every entity, in the order of entities
DrawEntities(entities) ==
    [k \in 1..(2 * Len(entities)) |->
        IF k % 2 = 1 THEN Artist("line", entities[(k + 1) \div 2], "none", 0, 0)
        ELSE Artist("points", entities[k \div 2], "none", 0, 0)]

\* format_axes: the y limits are (max_rank + 0.5, 0.5); y holds max_rank
FormatAxes(max_rank) == Artist("format", "", "none", 0, max_rank)

\* the drawing arguments of the model
ChartOptions ==
    { [ax_given |-> FALSE, show_labels |-> sl,
       min_label_distance |-> DefaultMinDistance] : sl \in LabelPositions }
    \cup { [ax_given |-> TRUE, show_labels |-> "True",
            min_label_distance |-> DefaultMinDistance] }

\* the rows of a table of supplied ranks none of which is negative
ChartRows ==
    { r \in RowsOver({"time", "entity", "rank"}) : r.rank.na \/ r.rank.v >= 0 }

\* the calls of bumpchart: tables of supplied ranks of at most MaxChartRows
\* rows and the tables of test_sorted_output and test_duplicate_entity_time
\* under every drawing argument; tables of values under every tie method;
\* frames of every set of columns, of at most MaxWideRows rows that differ
\* in their rank cell only, under every choice of rank_col and value_col
InitChart ==
    /\ \/ /\ opts \in ChartOptions
          /\ \/ \E rs \in UNION { [1..n -> ChartRows] : n \in 0..MaxChartRows } :
                    call = PrepCall(Frame({"time", "entity", "rank"}, rs),
                                    "rank", "None", TRUE, "average")
             \/ call = PrepCall(ExampleDuplicate, "rank", "None", TRUE, "average")
             \/ call = PrepCall(ExampleSorted, "rank", "None", TRUE, "average")
       \/ /\ opts \in { o \in ChartOptions : o.show_labels = "True" }
          /\ \/ \E m \in TieMethods :
                    \E rs \in Tables({"time", "entity", "value"}, MaxChartRows) :
                        call = PrepCall(Frame({"time", "entity", "value"}, rs),
                                        "None", "value", TRUE, m)
             \/ \E rc \in {"None", "rank"}, vc \in {"None", "value"} :
                    \/ call = PrepCall(NotAFrame, rc, vc, TRUE, "average")
                    \/ \E cols \in SUBSET Columns :
                            \E rs \in Tables(cols \cap {"rank"}, MaxWideRows) :
                                call = PrepCall(Frame(cols, rs), rc, vc, TRUE, "average")
    /\ validated = "not called"
    /\ prepared = NotPrepared
    /\ caller_df = TableOf(call.df)
    /\ bpc = "input"
    /\ figures = 0
    /\ axes = IF opts.ax_given THEN <<Existing>> ELSE <<>>
    /\ endpoints = NoEndpoints
    /\ InitLabelIdle
    /\ InitRankIdle

AfterPrepare_Proceed(error) == "prepared"

\* an error of prepare_data leaves bumpchart at once
AfterPrepare(error) == IF error = "none" THEN "prepared" ELSE "raised"

\* prepared_df = prepare_data(...): the call raises what prepare_data raises
BcPrepare ==
    /\ bpc = "input"
    /\ prepared' = prepare_data(call.df, call.rank_col, call.value_col,
                                call.ascending, call.tie_method)
    /\ caller_df' = HeapAfterPrepare(call.df, call.rank_col, call.value_col,
                                     call.ascending, call.tie_method)["df"]
    /\ bpc' = AfterPrepare(prepared'.raised)
    /\ UNCHANGED <<call, validated, opts, figures, axes, endpoints>>
    /\ UNCHANGED labelVars
    /\ UNCHANGED rankVars

\* if ax is None: _, ax = create_figure(figsize)
BcCreateAxes ==
    /\ bpc = "prepared"
    /\ figures' = IF opts.ax_given THEN figures ELSE figures + 1
    /\ bpc' = "axes"
    /\ UNCHANGED <<opts, axes, endpoints>>
    /\ UNCHANGED prepVars
    /\ UNCHANGED labelVars
    /\ UNCHANGED rankVars

\* for i, entity in enumerate(entities): _draw_lines, _draw_points; then
\* format_axes(ax, time_values, max_rank, show_grid=show_grid)
BcDraw ==
    /\ bpc = "axes"
    /\ axes' = Append(axes \o DrawEntities(EntitiesOf(prepared.result)),
                      FormatAxes(MaxRankOf(prepared.result)))
    /\ bpc' = "formatted"
    /\ UNCHANGED <<opts, figures, endpoints>>
    /\ UNCHANGED prepVars
    /\ UNCHANGED labelVars
    /\ UNCHANGED rankVars

\* add_labels_with_collision_avoidance(...); return ax
BcAddLabels ==
    /\ bpc = "formatted"
    /\ LET entities == EntitiesOf(prepared.result)
           entity_data == EntityDataOf(prepared.result)
       IN  /\ axes' = axes \o add_labels_with_collision_avoidance(
                                  entities, entity_data, opts.show_labels,
                                  opts.min_label_distance)
           /\ endpoints' =
                 [left |-> IF opts.show_labels # "False" /\ ShowsLeft(opts.show_labels)
                           THEN get_endpoint_positions(entities, entity_data, "left")
                           ELSE <<>>,
                  right |-> IF opts.show_labels # "False" /\ ShowsRight(opts.show_labels)
                            THEN get_endpoint_positions(entities, entity_data, "right")
                            ELSE <<>>]
    /\ bpc' = "returned"
    /\ UNCHANGED <<opts, figures>>
    /\ UNCHANGED prepVars
    /\ UNCHANGED labelVars
    /\ UNCHANGED rankVars

NextChart == BcPrepare \/ BcCreateAxes \/ BcDraw \/ BcAddLabels

SpecChart == InitChart /\ [][NextChart]_vars


----------------------------------------------------------------------------
(* Properties of the label layout *)

Called == lpc \in {"resolved", "again"}

\* Input entry j comes before input entry k when the input is ordered by
\* position ascending, equal positions in input order.
Precedes(lbls, j, k) ==
    \/ lbls[j][2] < lbls[k][2]
    \/ lbls[j][2] = lbls[k][2] /\ j < k

\* The indices of the input in that order, as a sequence: the i-th is the
\* entry that exactly i - 1 entries precede.
StableOrder(lbls) ==
    [i \in 1..Len(lbls) |->
        CHOOSE k \in 1..Len(lbls) :
            Cardinality({ j \in 1..Len(lbls) : Precedes(lbls, j, k) }) = i - 1]
    \o <<>>

\* Two entries of the input are closer than min_distance.
InputCollides ==
    \E i, j \in 1..Len(labels) :
        /\ i # j
        /\ labels[i][2] <= labels[j][2]
        /\ labels[j][2] - labels[i][2] < min_distance

\* C1: for min_distance >= 0, any two consecutive entries of the returned
\* list have adjusted positions that differ by at least min_distance.
LabelSeparation ==
    (Called /\ min_distance >= 0) =>
        \A i \in 1..(Len(adjusted) - 1) :
            adjusted[i + 1][2] - adjusted[i][2] >= min_distance

LabelSeparationWitness ==
    /\ lpc = "resolved"
    /\ min_distance > 0
    /\ Len(labels) = MaxLabels
    /\ InputCollides
    /\ \E i \in 1..(Len(adjusted) - 1) :
           adjusted[i + 1][2] - adjusted[i][2] = min_distance

\* C2: the returned list is the greedy pass over the input sorted by
\* position: the first entry keeps its position, each later entry gets the
\* previous adjusted position + min_distance when its own position is less
\* than min_distance above it, and keeps its position otherwise; the worked
\* example [(X,1.0),(Y,1.1),(Z,1.15)] with 0.5 gives [(X,1.0),(Y,1.5),(Z,2.0)].
GreedyReference ==
    Called =>
        /\ Len(adjusted) = Len(labels)
        /\ LET p == StableOrder(labels) IN
           \A i \in 1..Len(labels) :
               /\ adjusted[i][1] = labels[p[i]][1]
               /\ i = 1 => adjusted[i][2] = labels[p[i]][2]
               /\ i > 1 =>
                    adjusted[i][2] =
                        IF labels[p[i]][2] - adjusted[i - 1][2] < min_distance
                        THEN adjusted[i - 1][2] + min_distance
                        ELSE labels[p[i]][2]
        /\ (labels = ExampleLabels /\ min_distance = DefaultMinDistance) =>
               adjusted = << <<"X", 20>>, <<"Y", 30>>, <<"Z", 40>> >>

GreedyReferenceWitness ==
    /\ lpc = "resolved"
    /\ labels = ExampleLabels
    /\ min_distance = DefaultMinDistance
    /\ adjusted[3] = <<"Z", 40>>

\* C3: for a non-empty input, the entry with the minimum original position
\* (the first in sorted order) is returned with its original position.
LabelAnchor ==
    (Called /\ Len(labels) >= 1) =>
        LET first == StableOrder(labels)[1] IN
        /\ \A j \in 1..Len(labels) : labels[first][2] <= labels[j][2]
        /\ adjusted[1] = labels[first]

LabelAnchorWitness ==
    /\ lpc = "resolved"
    /\ Len(labels) >= 2
    /\ min_distance > 0
    /\ StableOrder(labels)[1] # 1
    /\ adjusted[2][2] # labels[StableOrder(labels)[2]][2]

\* C4: for min_distance >= 0, applying detect_label_collisions to its own
\* result with the same min_distance returns that result unchanged.
LabelIdempotence ==
    (lpc = "again" /\ min_distance >= 0) => readjusted = adjusted

LabelIdempotenceWitness ==
    /\ lpc = "again"
    /\ min_distance > 0
    /\ Len(labels) = MaxLabels
    /\ \E i \in 1..Len(labels) : adjusted[i][2] # labels[StableOrder(labels)[i]][2]
    /\ \E i \in 1..Len(labels) : StableOrder(labels)[i] # i

\* C5: the returned list has one entry per input pair, carrying the input's
\* identifiers in the order of the stable sort by original position (equal
\* positions in input order), and is ascending in adjusted position.
LabelOrder ==
    Called =>
        /\ Len(adjusted) = Len(labels)
        /\ LET p == StableOrder(labels) IN
           \A i \in 1..Len(labels) : adjusted[i][1] = labels[p[i]][1]
        /\ \A i \in 1..(Len(adjusted) - 1) :
               adjusted[i][2] <= adjusted[i + 1][2]

LabelOrderWitness ==
    /\ lpc = "resolved"
    /\ Len(labels) = MaxLabels
    /\ \E i, j \in 1..Len(labels) :
           /\ i < j
           /\ labels[i][2] = labels[j][2]
           /\ labels[i][1] # labels[j][1]
    /\ \E i \in 1..Len(labels) : StableOrder(labels)[i] # i

\* C6: an input of zero or one pair is returned unchanged for every
\* min_distance, and with min_distance = 0 every entry keeps its original
\* position.
LabelEdgeCases ==
    Called =>
        /\ Len(labels) <= 1 => adjusted = labels
        /\ min_distance = 0 =>
               /\ Len(adjusted) = Len(labels)
               /\ LET p == StableOrder(labels) IN
                  \A i \in 1..Len(labels) : adjusted[i] = labels[p[i]]

LabelEdgeCasesWitness ==
    /\ lpc = "resolved"
    /\ min_distance = 0
    /\ Len(labels) >= 2
    /\ \E i, j \in 1..Len(labels) : i # j /\ labels[i][2] = labels[j][2]
    /\ \E i, j \in 1..Len(labels) : labels[i][2] < labels[j][2]

\* C7: a negative min_distance is rejected with an error and no adjusted
\* positions are returned.
NegativeSeparationRejected ==
    (Called /\ min_distance < 0) =>
        /\ raised # "none"
        /\ adjusted = NotCalled

----------------------------------------------------------------------------
(* Properties of the rank engine.  A rank r of the source is 2 * r here.   *)

Rows == 1..Len(df)

SamePeriod(a, b) == df[a].time = df[b].time

Present(a) == ~df[a].value.na

PeriodOf(a) == { b \in Rows : SamePeriod(a, b) }

\* value(a) is strictly better than value(b) under the direction
StrictlyBetter(a, b) ==
    /\ Present(a)
    /\ Present(b)
    /\ IF ascending THEN df[a].value.v < df[b].value.v
       ELSE df[a].value.v > df[b].value.v

\* rows a and b both have a value, and the two values are equal
EqualValues(a, b) ==
    Present(a) /\ Present(b) /\ df[a].value.v = df[b].value.v

\* C8: if rows a and b are in the same period and value(a) is strictly
\* better than value(b) under the direction, then rank(a) <= rank(b), and
\* rank(a) < rank(b) under min, max, first and dense.
RankOrdering ==
    \A m \in DOMAIN rankOf :
        \A a, b \in Rows :
            (SamePeriod(a, b) /\ StrictlyBetter(a, b)) =>
                /\ rankOf[m][a] <= rankOf[m][b]
                /\ m \in {"min", "max", "first", "dense"} =>
                       rankOf[m][a] < rankOf[m][b]

RankOrderingWitness ==
    /\ ~ascending
    /\ {"average", "max", "first"} \subseteq DOMAIN rankOf
    /\ \E a, b, c \in Rows :
           /\ SamePeriod(a, b) /\ SamePeriod(b, c)
           /\ StrictlyBetter(a, b)
           /\ b # c /\ EqualValues(b, c)
           /\ a > b

\* no two values of the same period are equal
NoEqualValues ==
    \A a, b \in Rows : (a # b /\ SamePeriod(a, b)) => ~EqualValues(a, b)

\* no period has two rows whose value is absent
AtMostOneAbsent ==
    \A a, b \in Rows :
        (a # b /\ SamePeriod(a, b)) => (Present(a) \/ Present(b))

\* C9 as stated: when no two values of the same period are equal, all tie
\* methods return the same rank for every row.
TieMethodEquivalence ==
    NoEqualValues =>
        \A m1, m2 \in DOMAIN rankOf : rankOf[m1] = rankOf[m2]

\* C9 as amended: when no two values of the same period are equal and no
\* period has more than one absent value, all tie methods return the same
\* rank for every row, for both directions.
TieMethodEquivalenceDistinct ==
    (NoEqualValues /\ AtMostOneAbsent) =>
        \A m1, m2 \in DOMAIN rankOf : rankOf[m1] = rankOf[m2]

TieMethodEquivalenceWitness ==
    /\ DOMAIN rankOf = TieMethods
    /\ ~ascending
    /\ Len(df) = MaxRows
    /\ NoEqualValues
    /\ AtMostOneAbsent
    /\ \A a \in Rows : SamePeriod(1, a)
    /\ \E a \in Rows : ~Present(a)
    /\ \E a \in Rows : rankOf["dense"][a] = 2 * MaxRows

\* the ranks (undoubled) that a method gave to the rows of a's period
RanksIn(m, a) == { rankOf[m][b] \div 2 : b \in PeriodOf(a) }

\* the distinct values present in a's period
DistinctValues(a) == { df[b].value.v : b \in { c \in PeriodOf(a) : Present(c) } }

SomeAbsent(a) == \E b \in PeriodOf(a) : ~Present(b)

DenseExample ==
    (df = ExampleTies /\ ~ascending) => rankOf["dense"] = <<2, 2, 4>>

\* C10 as stated: under dense, a period with k distinct values is assigned
\* exactly the ranks 1..k, rows with equal values share one rank, and each
\* rank occurs as many times as its tie group has rows; values 100, 100, 80
\* descending give 1, 1, 2.
DenseRanks ==
    "dense" \in DOMAIN rankOf =>
        /\ \A a \in Rows :
               /\ RanksIn("dense", a) = 1..Cardinality(DistinctValues(a))
               /\ \A b \in PeriodOf(a) :
                      EqualValues(a, b) => rankOf["dense"][a] = rankOf["dense"][b]
               /\ Present(a) =>
                      Cardinality({ b \in PeriodOf(a) :
                                      rankOf["dense"][b] = rankOf["dense"][a] })
                        = Cardinality({ b \in PeriodOf(a) : EqualValues(a, b) })
        /\ DenseExample

\* C10 as amended: under dense, a period with k distinct present values is
\* assigned exactly the ranks 1..k when no value of the period is absent and
\* 1..k+1 when some value is absent, the rows with an absent value sharing
\* rank k+1; rows with equal values share one rank and each rank occurs as
\* many times as its tie group has rows; values 100, 100, 80 descending give
\* 1, 1, 2.
DenseRanksWithAbsent ==
    "dense" \in DOMAIN rankOf =>
        /\ \A a \in Rows :
               LET k == Cardinality(DistinctValues(a)) IN
               /\ RanksIn("dense", a) = IF SomeAbsent(a) THEN 1..(k + 1) ELSE 1..k
               /\ rankOf["dense"][a] % 2 = 0
               /\ ~Present(a) => rankOf["dense"][a] = 2 * (k + 1)
               /\ \A b \in PeriodOf(a) :
                      EqualValues(a, b) => rankOf["dense"][a] = rankOf["dense"][b]
               /\ Cardinality({ b \in PeriodOf(a) :
                                  rankOf["dense"][b] = rankOf["dense"][a] })
                    = Cardinality({ b \in PeriodOf(a) :
                                      df[b].value = df[a].value })
        /\ DenseExample

DenseRanksWitness ==
    /\ "dense" \in DOMAIN rankOf
    /\ df = ExampleTies
    /\ ~ascending
    /\ rankOf["dense"][3] = 4

\* the competition rank of the first member of a's tie group: one more than
\* the number of rows of the period with a strictly better value
CompetitionStart(a) ==
    1 + Cardinality({ b \in PeriodOf(a) : StrictlyBetter(b, a) })

\* the number of rows of the period whose value equals a's value
TieSize(a) == Cardinality({ b \in PeriodOf(a) : EqualValues(a, b) })

\* C11: under average, every member of a tie group of m equal values that
\* occupies competition ranks r..r+m-1 receives (r + (r+m-1))/2; two rows
\* tied for first get 1.5 and the next row gets 3.
AverageTies ==
    "average" \in DOMAIN rankOf =>
        /\ \A a \in Rows :
               Present(a) =>
                   rankOf["average"][a] =
                       CompetitionStart(a) + (CompetitionStart(a) + TieSize(a) - 1)
        /\ (df = ExampleTies /\ ~ascending) => rankOf["average"] = <<3, 3, 6>>

AverageTiesWitness ==
    /\ "average" \in DOMAIN rankOf
    /\ \E a, b, c \in Rows :
           /\ SamePeriod(a, b) /\ SamePeriod(a, c)
           /\ a # b /\ EqualValues(a, b)
           /\ StrictlyBetter(c, a)
           /\ rankOf["average"][a] = 5
           /\ rankOf["average"][b] = 5

\* C12: for a tie group occupying competition ranks r..r+m-1, min gives
\* every member rank r and max gives every member rank r+m-1.
MinMaxTies ==
    {"min", "max"} \subseteq DOMAIN rankOf =>
        \A a \in Rows :
            Present(a) =>
                /\ rankOf["min"][a] = 2 * CompetitionStart(a)
                /\ rankOf["max"][a] = 2 * (CompetitionStart(a) + TieSize(a) - 1)

MinMaxTiesWitness ==
    /\ {"min", "max"} \subseteq DOMAIN rankOf
    /\ ascending
    /\ \E a, b, c \in Rows :
           /\ SamePeriod(a, b) /\ SamePeriod(a, c)
           /\ a # b /\ EqualValues(a, b)
           /\ StrictlyBetter(c, a)
           /\ rankOf["min"][a] = 4
           /\ rankOf["max"][a] = 6

\* C13: under first, the ranks of a period with n rows are a permutation of
\* 1..n, and among rows with equal values the row that is earlier in the
\* input gets the smaller rank.
FirstTies ==
    "first" \in DOMAIN rankOf =>
        \A a \in Rows :
            /\ { rankOf["first"][b] : b \in PeriodOf(a) }
                 = { 2 * i : i \in 1..Cardinality(PeriodOf(a)) }
            /\ \A b \in PeriodOf(a) :
                   (a < b /\ EqualValues(a, b)) =>
                       rankOf["first"][a] < rankOf["first"][b]

FirstTiesWitness ==
    /\ "first" \in DOMAIN rankOf
    /\ ~ascending
    /\ Len(df) = MaxRows
    /\ \A a \in Rows : SamePeriod(1, a)
    /\ \E a, b \in Rows : a < b /\ EqualValues(a, b)
    /\ \E a, b \in Rows : StrictlyBetter(a, b)

\* row b is placed before row a of the same period: its value is strictly
\* better, or it has a value and a has none
PlacedBefore(b, a) ==
    /\ SamePeriod(a, b)
    /\ StrictlyBetter(b, a) \/ (Present(b) /\ ~Present(a))

\* rows a and b of one period hold the same cell (absent cells tie)
Tied(a, b) == SamePeriod(a, b) /\ df[a].value = df[b].value

\* The rank (doubled) that belongs to input row a under method m, from the
\* rows of a's period alone.
RankOfRow(m, a) ==
    LET less == Cardinality({ b \in Rows : PlacedBefore(b, a) })
        eq == Cardinality({ b \in Rows : Tied(a, b) })
    IN  CASE m = "min" -> 2 * (less + 1)
          [] m = "max" -> 2 * (less + eq)
          [] m = "average" -> (less + 1) + (less + eq)
          [] m = "first" ->
                2 * (less + Cardinality({ b \in Rows : Tied(a, b) /\ b <= a }))
          [] m = "dense" ->
                2 * (1 + Cardinality({ df[b].value : b \in { c \in Rows : PlacedBefore(c, a) } }))

\* C14: calculate_ranks returns one rank per input row, and the rank at
\* output position i is the rank of input row i, whatever the order of the
\* rows; scores 100, 80, 90 descending give 1, 3, 2.
OrderPreservation ==
    \A m \in DOMAIN rankOf :
        /\ DOMAIN rankOf[m] = 1..Len(df)
        /\ \A a \in Rows : rankOf[m][a] = RankOfRow(m, a)
        /\ (df = ExampleSimple /\ ~ascending) => rankOf[m] = <<2, 6, 4>>

OrderPreservationWitness ==
    /\ DOMAIN rankOf = TieMethods
    /\ df = ExampleSimple
    /\ ~ascending
    /\ rankOf["average"] = <<2, 6, 4>>

\* C15: in every period a row whose value is absent gets a rank greater than
\* the rank of every row with a present value, for both directions, and
\* every row, absent value or not, gets a rank.
AbsentPlacement ==
    \A m \in DOMAIN rankOf :
        /\ DOMAIN rankOf[m] = 1..Len(df)
        /\ \A a \in Rows :
               /\ rankOf[m][a] >= 2
               /\ ~Present(a) =>
                      \A b \in PeriodOf(a) :
                          Present(b) => rankOf[m][a] > rankOf[m][b]

AbsentPlacementWitness ==
    /\ DOMAIN rankOf = TieMethods
    /\ ~ascending
    /\ \E a, b, c \in Rows :
           /\ a < b /\ b < c
           /\ SamePeriod(a, b) /\ SamePeriod(a, c)
           /\ ~Present(a)
           /\ StrictlyBetter(c, b)
           /\ rankOf["min"][a] = 6

\* C16: the ranks of the rows of a period depend on the rows of that period
\* alone: they are the ranks that the rows of the period get as a table of
\* their own, so two tables with the same rows of period t in the same
\* order rank them alike whatever their other periods contain.
PeriodIndependence ==
    \A t \in DOMAIN periodRankOf :
        \A m \in TieMethods :
            periodRankOf[t][m] =
                [i \in 1..Len(PeriodIndex(df, t)) |-> rankOf[m][PeriodIndex(df, t)[i]]]

PeriodIndependenceWitness ==
    /\ Len(df) = MaxRows
    /\ \E t \in DOMAIN periodRankOf :
           /\ Len(PeriodIndex(df, t)) = 2
           /\ PeriodIndex(df, t)[1] = 1
           /\ PeriodIndex(df, t)[2] = 3
           /\ StrictlyBetter(3, 1)
           /\ Present(2)
           /\ df[2].time < t
           /\ df[2].value.v > df[1].value.v
           /\ periodRankOf[t]["max"] = <<4, 2>>

(***************************************************************************)
(* Claims about prepare_data and validate_dataframe.                       *)
(***************************************************************************)

PrepareCalled == prepared.raised # "not called"

Returned == PrepareCalled /\ prepared.raised = "none"

Failed == PrepareCalled /\ prepared.raised # "none"

\* the frame has the time and the entity column
HasKeys == call.df.is_dataframe /\ {"time", "entity"} \subseteq call.df.columns

Keys(rows) == { <<rows[i].time, rows[i].entity>> : i \in 1..Len(rows) }

\* two rows of the input share their (time, entity)
SharedKey == HasKeys /\ Cardinality(Keys(call.df.rows)) < Len(call.df.rows)

\* ranks are derived from the value column
ValuePath == HasKeys /\ call.value_col = "value" /\ "value" \in call.df.columns
             /\ (call.rank_col = "None" \/ "rank" \in call.df.columns)

\* ranks are taken from the supplied rank column
RankPath == HasKeys /\ call.value_col = "None" /\ call.rank_col = "rank"
            /\ "rank" \in call.df.columns

SuppliedRanks == { call.df.rows[i].rank : i \in 1..Len(call.df.rows) }

SomeNegativeRank == \E c \in SuppliedRanks : ~c.na /\ c.v < 0

AllRanksAbsent == \A c \in SuppliedRanks : c.na

DuplicateKeyRankWitness ==
    /\ call.df = ExampleDuplicate
    /\ RankPath
    /\ prepared.raised = "ValueError: Duplicate entity-time combinations found"

SuppliedValues == { call.df.rows[i].value : i \in 1..Len(call.df.rows) }

AllValuesAbsent == \A c \in SuppliedValues : c.na

\* C18: prepare_data fails, and returns no table, when every entry of the
\* value column it ranks by is absent, and when every entry of the rank
\* column it is given is absent.
AllAbsentRejected ==
    PrepareCalled =>
        /\ (ValuePath /\ AllValuesAbsent) => (Failed /\ prepared.result = <<>>)
        /\ (RankPath /\ AllRanksAbsent) => (Failed /\ prepared.result = <<>>)

ResultRanks == { prepared.result[i]._rank : i \in 1..Len(prepared.result) }

ValidateCalled == validated # "not called"

ValueErrors ==
    {"ValueError: DataFrame is empty",
     "ValueError: Missing required columns",
     "ValueError: Either 'rank_col' or 'value_col' must be provided",
     "ValueError: Rank column not found in DataFrame",
     "ValueError: Value column not found in DataFrame"}

\* one of the defects for which validate_dataframe is to raise ValueError
Malformed ==
    \/ Len(call.df.rows) = 0
    \/ "time" \notin call.df.columns
    \/ "entity" \notin call.df.columns
    \/ call.rank_col = "None" /\ call.value_col = "None"
    \/ call.rank_col # "None" /\ call.rank_col \notin call.df.columns
    \/ call.value_col # "None" /\ call.value_col \notin call.df.columns

\* C20: validate_dataframe raises TypeError when df is not a DataFrame,
\* ValueError when the table is empty, lacks the time or the entity column,
\* is given neither rank_col nor value_col, or is given a rank_col or a
\* value_col that is not one of its columns, and returns otherwise.
ValidateTaxonomy ==
    ValidateCalled =>
        /\ ~call.df.is_dataframe => validated = "TypeError: Expected pandas DataFrame"
        /\ (call.df.is_dataframe /\ Malformed) => validated \in ValueErrors
        /\ (call.df.is_dataframe /\ ~Malformed) => validated = "none"

\* a table with rows and both key columns, asked for a rank column it lacks
ValidateTaxonomyWitness ==
    /\ call.df.is_dataframe
    /\ Len(call.df.rows) > 0
    /\ {"time", "entity"} \subseteq call.df.columns
    /\ call.rank_col = "rank" /\ "rank" \notin call.df.columns
    /\ validated = "ValueError: Rank column not found in DataFrame"

\* an empty table with every column is refused
ValidateEmptyWitness ==
    /\ call.df.is_dataframe
    /\ call.df.columns = Columns
    /\ Len(call.df.rows) = 0
    /\ validated = "ValueError: DataFrame is empty"

\* a well-formed call returns
ValidateReturnsWitness ==
    /\ call.df.is_dataframe
    /\ ~Malformed
    /\ validated = "none"

\* an object that is not a DataFrame
ValidateTypeErrorWitness ==
    /\ ~call.df.is_dataframe
    /\ validated = "TypeError: Expected pandas DataFrame"

\* the rank (doubled) that belongs to input row i of the call
ExpectedRank(i) ==
    IF call.value_col # "None"
    THEN Num(calculate_ranks(call.df.rows, call.ascending, call.tie_method)[i])
    ELSE IF call.df.rows[i].rank.na THEN NaN ELSE Num(2 * call.df.rows[i].rank.v)

\* result row j is input row i with its rank
SameRow(j, i) ==
    /\ prepared.result[j].time = call.df.rows[i].time
    /\ prepared.result[j].entity = call.df.rows[i].entity
    /\ prepared.result[j].rank = call.df.rows[i].rank
    /\ prepared.result[j].value = call.df.rows[i].value
    /\ prepared.result[j]._rank = ExpectedRank(i)

\* C21: a returned table has the rows of the input, each once and each with
\* the rank of its own (time, entity), in the order of time ascending and
\* then entity ascending, whatever the order of the input rows.
SortedOutput ==
    Returned =>
        /\ Len(prepared.result) = Len(call.df.rows)
        /\ \A i \in 1..Len(call.df.rows) :
              \E j \in 1..Len(prepared.result) : SameRow(j, i)
        /\ \A j \in 1..Len(prepared.result) :
              \E i \in 1..Len(call.df.rows) : SameRow(j, i)
        /\ \A j \in 1..(Len(prepared.result) - 1) :
              \/ prepared.result[j].time < prepared.result[j + 1].time
              \/ /\ prepared.result[j].time = prepared.result[j + 1].time
                 /\ EntityIndex(prepared.result[j].entity)
                        < EntityIndex(prepared.result[j + 1].entity)

\* test_sorted_output: rows given as (2021,B) (2020,A) (2021,A) (2020,B)
\* come back as (2020,A) (2020,B) (2021,A) (2021,B) with ranks 1, 2, 1, 2
SortedOutputWitness ==
    /\ call.df = ExampleSorted
    /\ Returned
    /\ [j \in 1..4 |-> <<prepared.result[j].time, prepared.result[j].entity,
                            prepared.result[j]._rank.v>>]
          = << <<1, "A", 2>>, <<1, "B", 4>>, <<2, "A", 2>>, <<2, "B", 4>> >>

\* the rank cell of a returned row as a float (doubled)
RankCellAsFloat(row) == IF row.rank.na THEN NaN ELSE Num(2 * row.rank.v)

\* C22: whenever rank_col is given, the _rank of every returned row is the
\* row's rank cell as a float: no rank is derived from values.
DirectRanks ==
    (Returned /\ call.rank_col = "rank") =>
        \A j \in 1..Len(prepared.result) :
            prepared.result[j]._rank = RankCellAsFloat(prepared.result[j])

\* C23: prepare_data fails when rank_col and value_col are both given and
\* when neither is given, and returns a table only when exactly one is.
ExactlyOneOfRankAndValue ==
    PrepareCalled =>
        /\ (call.rank_col # "None" /\ call.value_col # "None") => Failed
        /\ (call.rank_col = "None" /\ call.value_col = "None") => Failed
        /\ Returned => (call.rank_col = "None") # (call.value_col = "None")

\* C25: after prepare_data, whether it returned or raised, the caller's
\* table has the columns and the rows it was passed with: no '_rank'
\* column, no row added, dropped, moved or changed.  (calculate_ranks is
\* called inside, on the value path.)
InputUnchanged ==
    PrepareCalled => caller_df = TableOf(call.df)

\* a table of values in need of sorting was ranked and returned
InputUnchangedWitness ==
    /\ Returned
    /\ ValuePath
    /\ Len(prepared.result) = 2
    /\ prepared.result[1].entity # call.df.rows[1].entity
    /\ "_rank" \notin caller_df.columns
    /\ caller_df.rows = call.df.rows

\* a call that raised after the ranks had been assigned
InputUnchangedRaisedWitness ==
    /\ prepared.raised = "ValueError: Rank values must be non-negative"
    /\ caller_df = TableOf(call.df)

\* the original position of the entry returned at place i
OriginalAt(i) == labels[StableOrder(labels)[i]][2]

\* the original positions in the returned order
OriginalPositions ==
    LET p == StableOrder(labels) IN
    [i \in 1..Len(labels) |-> labels[p[i]][2]] \o <<>>

\* C27: for min_distance >= 0, every entry is returned at or above its
\* original position, and an entry whose original position is at least
\* min_distance above the adjusted position before it is returned unmoved.
LabelsPushedUp ==
    (Called /\ min_distance >= 0) =>
        LET o == OriginalPositions IN
        \A i \in 1..Len(adjusted) :
            /\ adjusted[i][2] >= o[i]
            /\ (i > 1 /\ o[i] - adjusted[i - 1][2] >= min_distance)
                  => adjusted[i][2] = o[i]

\* one entry was pushed up while a later one, far enough, stayed
LabelsPushedUpWitness ==
    /\ lpc = "resolved"
    /\ min_distance > 0
    /\ Len(adjusted) = 3
    /\ adjusted[2][2] > OriginalAt(2)
    /\ adjusted[3][2] = OriginalAt(3)
    /\ OriginalAt(3) - adjusted[2][2] >= min_distance

\* an assignment a of positions to the sorted entries, of original
\* positions o, that moves none of them down and keeps consecutive
\* positions min_distance apart
Feasible(o, a) ==
    /\ \A i \in 1..Len(a) : a[i] >= o[i]
    /\ \A i \in 1..(Len(a) - 1) : a[i + 1] - a[i] >= min_distance

\* the assignments of the first k entries that lie between the original
\* position o and the returned position g of each entry
RECURSIVE Between(_, _, _)
Between(o, g, k) ==
    IF k = 0 THEN {<<>>}
    ELSE { Append(a, y) : a \in Between(o, g, k - 1), y \in o[k]..g[k] }

\* C28: for min_distance >= 0 the returned positions are the component-wise
\* least feasible assignment: they are feasible, and no feasible assignment
\* puts an entry below its returned position.  (The component-wise minimum
\* of two feasible assignments is feasible, so an assignment that puts some
\* entry lower yields one that lies between the original and the returned
\* positions throughout; those are the ones enumerated.)
MinimalDisplacement ==
    (Called /\ min_distance >= 0) =>
        LET g == [i \in 1..Len(adjusted) |-> adjusted[i][2]] \o <<>>
            o == OriginalPositions
        IN  /\ Feasible(o, g)
            /\ \A a \in Between(o, g, Len(g)) : Feasible(o, a) => a = g

\* entries were pushed, so there are assignments below the returned one
MinimalDisplacementWitness ==
    /\ lpc = "resolved"
    /\ min_distance = 2
    /\ Len(adjusted) = 3
    /\ adjusted[2][2] > OriginalAt(2)
    /\ adjusted[3][2] > OriginalAt(3) + 1

(***************************************************************************)
(* Claims about bumpchart, get_endpoint_positions and                      *)
(* add_labels_with_collision_avoidance.                                    *)
(***************************************************************************)

\* the axes as they were when bumpchart was called
InitialAxes == IF opts.ax_given THEN <<Existing>> ELSE <<>>

\* one of the defects of the input for which validation is to fail
InvalidInput ==
    \/ ~call.df.is_dataframe
    \/ Malformed
    \/ RankPath /\ (AllRanksAbsent \/ SomeNegativeRank)
    \/ SharedKey

\* C24: in every state of a call of bumpchart whose input has one of the
\* defects, no figure has been created and the axes are as they were when
\* the call was made; once prepare_data has run, such a call has raised;
\* and whatever is created or drawn is so after prepare_data returned.
NoPartialChart ==
    /\ (bpc # "idle" /\ InvalidInput) =>
          /\ figures = 0
          /\ axes = InitialAxes
          /\ bpc \in {"input", "raised"}
    /\ bpc = "raised" => (Failed /\ figures = 0 /\ axes = InitialAxes)
    /\ (figures > 0 \/ axes # InitialAxes) => Returned

\* test_duplicate_entity_time given with an axes: raised, axes untouched
NoPartialChartWitness ==
    /\ bpc = "raised"
    /\ call.df = ExampleDuplicate
    /\ opts.ax_given
    /\ prepared.raised = "ValueError: Duplicate entity-time combinations found"
    /\ axes = <<Existing>>
    /\ figures = 0

\* max_rank as format_axes received it
FormattedMaxRank ==
    axes[CHOOSE k \in 1..Len(axes) : axes[k].kind = "format"].y

AxesFormatted == bpc \in {"formatted", "returned"}

PlottedRanks == { c \in ResultRanks : ~c.na }

\* C29: once the axes are formatted, every present rank r of the prepared
\* table has 0.5 <= r <= max_rank + 0.5 (doubled: 1 <= r <= 2 max_rank + 1),
\* for derived and for supplied ranks.
RanksInsideAxis ==
    AxesFormatted =>
        \A c \in PlottedRanks : 1 <= c.v /\ c.v <= 2 * FormattedMaxRank + 1

\* the rows of the prepared table of entity e whose rank is present
PresentRowsOf(e) ==
    { i \in 1..Len(prepared.result) :
        prepared.result[i].entity = e /\ ~prepared.result[i]._rank.na }

HasPresentRank(e) == PresentRowsOf(e) # {}

\* the row of entity e with a present rank at its earliest / latest time
FirstPresentRow(e) ==
    CHOOSE i \in PresentRowsOf(e) :
        \A j \in PresentRowsOf(e) : prepared.result[i].time <= prepared.result[j].time

LastPresentRow(e) ==
    CHOOSE i \in PresentRowsOf(e) :
        \A j \in PresentRowsOf(e) : prepared.result[i].time >= prepared.result[j].time

EndRow(e, side) == IF side = "left" THEN FirstPresentRow(e) ELSE LastPresentRow(e)

\* the k-th entity of the list that has a present rank
LabelledEntity(entities, k) ==
    entities[CHOOSE i \in 1..Len(entities) :
                /\ HasPresentRank(entities[i])
                /\ Cardinality({ j \in 1..(i - 1) : HasPresentRank(entities[j]) }) = k - 1]

SideCalled(side) ==
    /\ bpc = "returned"
    /\ IF side = "left" THEN ShowsLeft(opts.show_labels) ELSE ShowsRight(opts.show_labels)

\* C30: get_endpoint_positions returns one pair for each entity of the
\* list that has a present rank, in the order of the list, none for an
\* entity whose ranks are all absent, and the position is the entity's first
\* present rank on the left and its last present rank on the right.
EndpointPositions ==
    \A side \in {"left", "right"} :
        SideCalled(side) =>
            LET entities == EntitiesOf(prepared.result)
                labelled == { k \in 1..Len(entities) : HasPresentRank(entities[k]) }
            IN  /\ Len(endpoints[side]) = Cardinality(labelled)
                /\ \A k \in 1..Len(endpoints[side]) :
                      /\ endpoints[side][k][1] = LabelledEntity(entities, k)
                      /\ endpoints[side][k][2] =
                            10 * prepared.result[EndRow(endpoints[side][k][1], side)]._rank.v

\* an entity whose first and last present ranks differ
EndpointPositionsWitness ==
    /\ bpc = "returned"
    /\ opts.show_labels = "True"
    /\ Len(endpoints.left) = 1
    /\ endpoints.left[1][2] # endpoints.right[1][2]

\* an entity without a present rank gets no pair, the one after it does
EndpointPositionsSkipWitness ==
    /\ bpc = "returned"
    /\ opts.show_labels = "left"
    /\ Len(EntitiesOf(prepared.result)) = 2
    /\ ~HasPresentRank(EntitiesOf(prepared.result)[1])
    /\ Len(endpoints.left) = 1
    /\ endpoints.left[1][1] = EntitiesOf(prepared.result)[2]

\* the places in the axes of the texts of entity e on one side
TextsOf(e, side) ==
    { k \in 1..Len(axes) :
        axes[k].kind = "text" /\ axes[k].entity = e /\ axes[k].side = side }

AllTexts == { k \in 1..Len(axes) : axes[k].kind = "text" }

ChartEntities == { prepared.result[i].entity : i \in 1..Len(prepared.result) }

\* the sides that show_labels asks for
SidesOf(show_labels) ==
    CASE show_labels = "False" -> {}
      [] show_labels = "left" -> {"left"}
      [] show_labels = "right" -> {"right"}
      [] show_labels \in {"True", "both"} -> {"left", "right"}

\* the position detect_label_collisions gives entity e on one side
AdjustedPositionOf(e, side) ==
    LET adjusted_side == detect_label_collisions(endpoints[side],
                                                 opts.min_label_distance)
    IN  adjusted_side[CHOOSE k \in 1..Len(adjusted_side) : adjusted_side[k][1] = e][2]

\* C26: when bumpchart has returned, the axes hold no text for show_labels
\* False; otherwise, for each side that show_labels asks for ('left',
\* 'right', both sides for True and 'both'), exactly one text per entity
\* that has a present rank and none for any other entity, and no text on a
\* side not asked for; a left text is at the entity's first present time,
\* a right text at its last, each at the position that
\* detect_label_collisions gave the entity on that side.
LabelSides ==
    bpc = "returned" =>
        /\ opts.show_labels = "False" => AllTexts = {}
        /\ \A side \in {"left", "right"} : \A e \in ChartEntities :
              IF side \in SidesOf(opts.show_labels) /\ HasPresentRank(e)
              THEN /\ Cardinality(TextsOf(e, side)) = 1
                   /\ \A k \in TextsOf(e, side) :
                         /\ axes[k].x = prepared.result[EndRow(e, side)].time
                         /\ axes[k].y = AdjustedPositionOf(e, side)
              ELSE TextsOf(e, side) = {}
        /\ \A k \in AllTexts : axes[k].entity \in ChartEntities

\* both sides shown, two entities, and a left label pushed off its rank
LabelSidesWitness ==
    /\ bpc = "returned"
    /\ opts.show_labels = "both"
    /\ Cardinality(AllTexts) = 4
    /\ \E k \in AllTexts :
          /\ axes[k].side = "left"
          /\ axes[k].y # 10 * prepared.result[EndRow(axes[k].entity, "left")]._rank.v

\* one side only: a right label at the last present time, which is not the
\* entity's first
LabelSidesRightWitness ==
    /\ bpc = "returned"
    /\ opts.show_labels = "right"
    /\ Cardinality(AllTexts) = 1
    /\ \E k \in AllTexts :
          axes[k].x # prepared.result[FirstPresentRow(axes[k].entity)].time

\* show_labels False: a chart without a text
LabelSidesNoneWitness ==
    /\ bpc = "returned"
    /\ opts.show_labels = "False"
    /\ Len(axes) > 0
    /\ AllTexts = {}

====
